---- MODULE Spec2Model ----
(***************************************************************************)
(* A model of the data-access layer of proctorwis-connect-lambda-package   *)
(* (src/db_utils.py): get_or_create_space, get_or_create_participant and   *)
(* create_face_auth_log, run by concurrent callers against one relational  *)
(* store, and of the parameter reader get_parameter (src/ssm_utils.py).    *)
(*                                                                         *)
(* Every cursor.execute is one atomic step on the store; between two       *)
(* executes of one caller any other caller may run (no transaction or lock *)
(* is taken by the code).  A table is the sequence of its rows in          *)
(* insertion order, which is the order of the auto-increment id; fetchone  *)
(* returns the first row of a result.  Whether the schema declares UNIQUE  *)
(* indexes is not decided by the code: the variable unique_index holds     *)
(* either answer.  Any execute may also fail for a reason of the store's   *)
(* own (pymysql.OperationalError).                                         *)
(***************************************************************************)
EXTENDS Integers, Sequences, FiniteSets, TLC

\* ---------------------------------------------------------------- bounds
\* Collisions one call may meet in its uuid loop before the generator stops
\* producing colliding candidates.
MaxAttempts == 2
\* Rows the spaces table may reach (calls are not started beyond it).
MaxSpaces == 2
\* Rows the participants table may reach (calls are not started beyond it).
MaxParticipants == 2
\* Rows the face_auth_logs table may reach.
MaxLogs == 2

\* ---------------------------------------------------------------- inputs
Callers == {"a", "b"}
Orgs == {41, 42}
SpaceCodes == {"S1"}
\* the space_name each caller's request carries
SpaceNames == [a |-> "Space One", b |-> "Renamed"]
ParticipantCodes == {"P1"}
\* <<participant_user_code, participant_name>> each caller's request carries
ParticipantIdentities == [a |-> <<"U1", "Ann">>, b |-> <<"U2", "Bob">>]
\* The values uuid.uuid4().hex may return: always one more than the table
\* can hold rows, so that a candidate that is not yet used exists.
Uuids == 1..(MaxParticipants + 1)
\* spaces.open_result_days is not written by the code: the store fills it in
\* (a DEFAULT, a trigger, an administrator).  Here by organization, so that
\* spaces with different retention windows occur.
open_result_days_of(organization_id) == IF organization_id = 41 THEN 3 ELSE 7
\* <<is_authenticated, reason>> of an authentication event; a document is
\* the sequence of its <<key, value>> items
AuthOutcomes == {<<TRUE, <<>>>>, <<FALSE, << <<"code", "mismatch">> >>>>}

\* The value datetime.datetime.now() returns to each caller.
dt(y, mo, d, h, mi, s, us) ==
    [year |-> y, month |-> mo, day |-> d, hour |-> h, minute |-> mi,
     second |-> s, microsecond |-> us]
Instants == [a |-> dt(2024, 1, 1, 0, 0, 0, 0),
             b |-> dt(2024, 2, 27, 9, 5, 7, 789)]

None == [id |-> 0]

Range(seq) == {seq[i] : i \in DOMAIN seq}

\* ------------------------------------------------- datetime (line 125-126)
_is_leap(y) == (y % 4 = 0) /\ ((y % 100 # 0) \/ (y % 400 = 0))

_days_before_year(y) ==
    (y - 1) * 365 + ((y - 1) \div 4) - ((y - 1) \div 100) + ((y - 1) \div 400)

_DAYS_IN_MONTH == <<31, 28, 31, 30, 31, 30, 31, 31, 30, 31, 30, 31>>

RECURSIVE _month_days_sum(_, _)
_month_days_sum(y, m) ==
    IF m = 0 THEN 0 ELSE _DAYS_IN_MONTH[m] + _month_days_sum(y, m - 1)

_days_before_month(y, m) ==
    _month_days_sum(y, m - 1) + (IF m > 2 /\ _is_leap(y) THEN 1 ELSE 0)

_ymd2ord(y, m, d) == _days_before_year(y) + _days_before_month(y, m) + d

\* days before month m in a year, as _DAYS_BEFORE_MONTH[m] + (m > 2 and leap)
_days_before(m, leapyear) ==
    _month_days_sum(1, m - 1) + (IF m > 2 /\ leapyear THEN 1 ELSE 0)

\* the proleptic Gregorian ordinal back to <<year, month, day>>
_ord2ymd(ordinal) ==
    LET n0 == ordinal - 1
        n400 == n0 \div 146097
        r400 == n0 % 146097
        n100 == r400 \div 36524
        r100 == r400 % 36524
        n4 == r100 \div 1461
        r4 == r100 % 1461
        n1 == r4 \div 365
        n == r4 % 365
        year == n400 * 400 + 1 + n100 * 100 + n4 * 4 + n1
        leapyear == (n1 = 3) /\ ((n4 # 24) \/ (n100 = 3))
        guess == (n + 50) \div 32
        before == _days_before(guess, leapyear)
        month == IF before > n THEN guess - 1 ELSE guess
        preceding ==
            IF before > n
            THEN before - (IF guess - 1 = 2 /\ leapyear
                           THEN 29 ELSE _DAYS_IN_MONTH[guess - 1])
            ELSE before
    IN  IF n1 = 4 \/ n100 = 4
        THEN <<year - 1, 12, 31>>
        ELSE <<year, month, n - preceding + 1>>

\* datetime + timedelta(days=days): the date goes through its ordinal, the
\* time of day is kept
timedelta_add(now, days) ==
    LET ymd == _ord2ymd(_ymd2ord(now.year, now.month, now.day) + days)
    IN  [now EXCEPT !.year = ymd[1], !.month = ymd[2], !.day = ymd[3]]

Digit(n) ==
    CASE n = 0 -> "0" [] n = 1 -> "1" [] n = 2 -> "2" [] n = 3 -> "3"
      [] n = 4 -> "4" [] n = 5 -> "5" [] n = 6 -> "6" [] n = 7 -> "7"
      [] n = 8 -> "8" [] n = 9 -> "9"

\* n in decimal, zero-padded to w digits
RECURSIVE Pad(_, _)
Pad(n, w) == IF w = 0 THEN "" ELSE Pad(n \div 10, w - 1) \o Digit(n % 10)

\* strftime('%Y-%m-%d %H:%M:%S.%f')
strftime(t) ==
    Pad(t.year, 4) \o "-" \o Pad(t.month, 2) \o "-" \o Pad(t.day, 2) \o " "
    \o Pad(t.hour, 2) \o ":" \o Pad(t.minute, 2) \o ":" \o Pad(t.second, 2)
    \o "." \o Pad(t.microsecond, 6)

result_closed_at_of_now(now, space) == strftime(now)

\* result_closed_at of a participant created at now in a space (line 125-126)
result_closed_at_of(now, space) ==
    strftime(timedelta_add(now, space.open_result_days))

\* ------------------------------------------------------ json.dumps (line 173)
RECURSIVE json_items(_)
json_items(doc) ==
    IF doc = <<>> THEN ""
    ELSE "\"" \o doc[1][1] \o "\": \"" \o doc[1][2] \o "\""
         \o (IF Len(doc) > 1 THEN ", " ELSE "") \o json_items(Tail(doc))

json_dumps(doc) == "{" \o json_items(doc) \o "}"

\* ------------------------------------------------------------------ state
VARIABLES
    unique_index,    \* the UNIQUE indexes the schema declares (never changes)
    spaces,          \* table spaces, rows in id order
    participants,    \* table participants, rows in id order
    face_auth_logs,  \* table face_auth_logs, rows in insertion order
    pc,              \* per caller: the statement it is about to execute
    args,            \* per caller: the arguments of its current (last) call
    local,           \* per caller: the local variables of its current call
    ret,             \* per caller: what its last call returned or raised
    attempts,        \* per caller: existence checks made by its uuid loop
    overlap,         \* history: two get-or-create calls have been in flight at once
    resolved,        \* history: per space key, the id the last successful call returned
    lost             \* history: per caller, the key and row of the insert it lost
                     \* against, or of its own insert whose read-back it lost

vars == <<unique_index, spaces, participants, face_auth_logs, pc, args, local,
          ret, attempts, overlap, resolved, lost>>

Indexes == {"spaces_key", "participants_key", "participants_uuid"}

NoArgs == [op |-> "none"]
NoLocal == [lastrowid |-> 0, participant_uuid |-> 0, now |-> None]
NoLoss == [table |-> "none"]
Raised(e) == [raised |-> e]

\* the statements of a get-or-create call (a caller at one of them is in flight)
GetOrCreateSteps ==
    {"space_select", "space_insert", "space_reselect", "participant_select",
     "uuid_select", "participant_insert", "participant_reselect"}
Resting == {"idle", "returned", "raised"}

Init ==
    /\ unique_index \in {{}, Indexes}
    /\ spaces = <<>>
    /\ participants = <<>>
    /\ face_auth_logs = <<>>
    /\ pc = [c \in Callers |-> "idle"]
    /\ args = [c \in Callers |-> NoArgs]
    /\ local = [c \in Callers |-> NoLocal]
    /\ ret = [c \in Callers |-> None]
    /\ attempts = [c \in Callers |-> 0]
    /\ overlap = FALSE
    /\ resolved = [k \in Orgs \X SpaceCodes |-> 0]
    /\ lost = [c \in Callers |-> NoLoss]

\* ------------------------------------------------------------- the store
\* cursor.fetchone(): the first row of the result, or None
fetchone(rows) == IF rows = <<>> THEN None ELSE rows[1]

select_spaces_by_name(organization_id, space_code) ==
    SelectSeq(spaces, LAMBDA r: /\ r.organization_id = organization_id
                                /\ r.space_name = space_code)

select_spaces_by_code(organization_id, space_code) ==
    SelectSeq(spaces, LAMBDA r: r.space_code = space_code)

\* SELECT * FROM spaces WHERE organization_id = %s AND space_code = %s
select_spaces_by_key(organization_id, space_code) ==
    SelectSeq(spaces, LAMBDA r: /\ r.organization_id = organization_id
                                /\ r.space_code = space_code)

\* SELECT * FROM <table> WHERE id = %s
select_by_id(table, id) == SelectSeq(table, LAMBDA r: r.id = id)

select_participants_by_code(organization_id, space_id, participant_code) ==
    SelectSeq(participants, LAMBDA r: r.participant_code = participant_code)

\* SELECT * FROM participants WHERE organization_id = %s AND space_id = %s
\*   AND participant_code = %s
select_participants_by_key(organization_id, space_id, participant_code) ==
    SelectSeq(participants, LAMBDA r: /\ r.organization_id = organization_id
                                      /\ r.space_id = space_id
                                      /\ r.participant_code = participant_code)

\* SELECT * FROM participants WHERE uuid = %s
select_participants_by_uuid(participant_uuid) ==
    SelectSeq(participants, LAMBDA r: r.uuid = participant_uuid)

\* line 68: if space is None
space_is_none_always(space) == TRUE
space_is_none(space) == space = None

\* line 115: if participant is None
participant_is_none_always(participant) == TRUE
participant_is_none(participant) == participant = None

\* line 124: if exist_participant is None
exist_participant_is_none_always(exist_participant) == TRUE
exist_participant_is_none(exist_participant) == exist_participant = None

\* the AUTO_INCREMENT id the next insert into a table gets (cursor.lastrowid)
next_id(table) == Len(table) + 1

\* INSERT INTO spaces is refused (IntegrityError) by a UNIQUE index
spaces_duplicate(organization_id, space_code) ==
    /\ "spaces_key" \in unique_index
    /\ select_spaces_by_key(organization_id, space_code) # <<>>

\* INSERT INTO participants is refused (IntegrityError) by a UNIQUE index
participants_duplicate(participant_uuid, organization_id, space_id, participant_code) ==
    \/ /\ "participants_uuid" \in unique_index
       /\ select_participants_by_uuid(participant_uuid) # <<>>
    \/ /\ "participants_key" \in unique_index
       /\ select_participants_by_key(organization_id, space_id, participant_code) # <<>>

\* ------------------------------------------------------ history variables
InFlight(c) == pc[c] \in GetOrCreateSteps

\* what starting a get-or-create call by c does to overlap
Overlaps(c) == overlap \/ \E d \in Callers \ {c}: InFlight(d)

SpaceKey(a) == <<a.organization_id, a.space_code>>

\* a loss is remembered while the caller goes on calling for the same key
KeepLoss(c, table, key) ==
    IF lost[c] # NoLoss /\ lost[c].table = table /\ lost[c].key = key
    THEN lost[c] ELSE NoLoss

\* what a store error does to lost: an error on the re-read leaves the row
\* the call has inserted without a reader
LoseReadBack(c) ==
    CASE pc[c] = "space_reselect"
            -> [table |-> "spaces", key |-> SpaceKey(args[c]),
                what |-> "read_back", id |-> local[c].lastrowid]
      [] pc[c] = "participant_reselect"
            -> [table |-> "participants",
                key |-> <<args[c].organization_id, args[c].space.id,
                          args[c].participant_code>>,
                what |-> "read_back", id |-> local[c].lastrowid]
      [] OTHER -> lost[c]

\* return or raise: the locals of the call are gone
Leave(c) ==
    /\ local' = [local EXCEPT ![c] = NoLocal]
    /\ attempts' = [attempts EXCEPT ![c] = 0]

\* ---------------------------------------------------- get_or_create_space
SpaceSteps == {"space_select", "space_insert"}

\* the call: def get_or_create_space(conn, organization_id, space_code, space_name)
get_or_create_space(c, organization_id, space_code, space_name) ==
    /\ pc[c] \in Resting
    /\ \/ select_spaces_by_key(organization_id, space_code) # <<>>
       \/ Len(spaces)
            + Cardinality({d \in Callers \ {c}: pc[d] \in SpaceSteps})
          < MaxSpaces
    /\ pc' = [pc EXCEPT ![c] = "space_select"]
    /\ args' = [args EXCEPT ![c] =
                  [op |-> "get_or_create_space",
                   organization_id |-> organization_id,
                   space_code |-> space_code, space_name |-> space_name]]
    /\ local' = [local EXCEPT ![c] = NoLocal]
    /\ ret' = [ret EXCEPT ![c] = None]
    /\ attempts' = [attempts EXCEPT ![c] = 0]
    /\ overlap' = Overlaps(c)
    /\ lost' = [lost EXCEPT ![c] =
                  IF lost[c].table = "participants"
                  THEN IF lost[c].key[1] = organization_id
                       THEN lost[c] ELSE NoLoss
                  ELSE KeepLoss(c, "spaces", <<organization_id, space_code>>)]
    /\ UNCHANGED <<unique_index, spaces, participants, face_auth_logs, resolved>>

space_select_hit_renamed(c) ==
    LET space == fetchone(select_spaces_by_key(args[c].organization_id,
                                               args[c].space_code))
    IN  /\ pc[c] = "space_select"
        /\ ~space_is_none(space)
        /\ pc' = [pc EXCEPT ![c] = "returned"]
        /\ ret' = [ret EXCEPT ![c] =
                     [space EXCEPT !.space_name = args[c].space_name]]
        /\ resolved' = [resolved EXCEPT ![SpaceKey(args[c])] = space.id]
        /\ Leave(c)
        /\ UNCHANGED <<unique_index, spaces, participants, face_auth_logs,
                       args, overlap, lost>>

space_select_hit_update(c) ==
    LET space == fetchone(select_spaces_by_key(args[c].organization_id,
                                               args[c].space_code))
    IN  /\ pc[c] = "space_select"
        /\ ~space_is_none(space)
        /\ spaces' = [spaces EXCEPT ![space.id].space_name = args[c].space_name]
        /\ pc' = [pc EXCEPT ![c] = "returned"]
        /\ ret' = [ret EXCEPT ![c] = space]
        /\ resolved' = [resolved EXCEPT ![SpaceKey(args[c])] = space.id]
        /\ Leave(c)
        /\ UNCHANGED <<unique_index, participants, face_auth_logs, args, overlap, lost>>

\* line 64-68 and 82, space is not None: the row is returned as stored
space_select_hit(c) ==
    LET space == fetchone(select_spaces_by_key(args[c].organization_id,
                                               args[c].space_code))
    IN  /\ pc[c] = "space_select"
        /\ ~space_is_none(space)
        /\ pc' = [pc EXCEPT ![c] = "returned"]
        /\ ret' = [ret EXCEPT ![c] = space]
        /\ resolved' = [resolved EXCEPT ![SpaceKey(args[c])] = space.id]
        /\ Leave(c)
        /\ UNCHANGED <<unique_index, spaces, participants, face_auth_logs, args, overlap, lost>>

\* line 64-68, space is None: go on to the insert
space_select_miss(c) ==
    LET space == fetchone(select_spaces_by_key(args[c].organization_id,
                                               args[c].space_code))
    IN  /\ pc[c] = "space_select"
        /\ space_is_none(space)
        /\ pc' = [pc EXCEPT ![c] = "space_insert"]
        /\ UNCHANGED <<unique_index, spaces, participants, face_auth_logs, args,
                       local, ret, attempts, overlap, resolved, lost>>

\* line 69-72: the insert; open_result_days is filled in by the store
space_insert(c) ==
    /\ pc[c] = "space_insert"
    /\ ~spaces_duplicate(args[c].organization_id, args[c].space_code)
    /\ spaces' = Append(spaces,
                        [id |-> next_id(spaces),
                         organization_id |-> args[c].organization_id,
                         space_code |-> args[c].space_code,
                         space_name |-> args[c].space_name,
                         open_result_days |->
                             open_result_days_of(args[c].organization_id)])
    /\ local' = [local EXCEPT ![c].lastrowid = next_id(spaces)]
    /\ pc' = [pc EXCEPT ![c] = "space_reselect"]
    /\ UNCHANGED <<unique_index, participants, face_auth_logs, args, ret,
                   attempts, overlap, resolved, lost>>

space_insert_refused_retry(c) ==
    /\ pc[c] = "space_insert"
    /\ spaces_duplicate(args[c].organization_id, args[c].space_code)
    /\ pc' = [pc EXCEPT ![c] = "space_select"]
    /\ UNCHANGED <<unique_index, spaces, participants, face_auth_logs, args,
                   local, ret, attempts, overlap, resolved, lost>>

\* line 70 raising, line 79-80: the UNIQUE index refuses the row; the error
\* goes to the caller as it is
space_insert_refused(c) ==
    /\ pc[c] = "space_insert"
    /\ spaces_duplicate(args[c].organization_id, args[c].space_code)
    /\ pc' = [pc EXCEPT ![c] = "raised"]
    /\ ret' = [ret EXCEPT ![c] = Raised("IntegrityError")]
    /\ lost' = [lost EXCEPT ![c] =
                  [table |-> "spaces", key |-> SpaceKey(args[c]),
                   what |-> "insert",
                   id |-> fetchone(select_spaces_by_key(
                              args[c].organization_id, args[c].space_code)).id]]
    /\ Leave(c)
    /\ args' = [args EXCEPT ![c] = NoArgs]
    /\ UNCHANGED <<unique_index, spaces, participants, face_auth_logs, overlap, resolved>>

space_reselect_by_key(c) ==
    LET space == fetchone(select_spaces_by_key(args[c].organization_id,
                                               args[c].space_code))
    IN  /\ pc[c] = "space_reselect"
        /\ pc' = [pc EXCEPT ![c] = "returned"]
        /\ ret' = [ret EXCEPT ![c] = space]
        /\ resolved' = [resolved EXCEPT ![SpaceKey(args[c])] = space.id]
        /\ Leave(c)
        /\ UNCHANGED <<unique_index, spaces, participants, face_auth_logs, args, overlap, lost>>

\* line 74-77 and 82: the re-read by the id the insert produced
space_reselect(c) ==
    LET space == fetchone(select_by_id(spaces, local[c].lastrowid))
    IN  /\ pc[c] = "space_reselect"
        /\ pc' = [pc EXCEPT ![c] = "returned"]
        /\ ret' = [ret EXCEPT ![c] = space]
        /\ resolved' = [resolved EXCEPT ![SpaceKey(args[c])] = space.id]
        /\ Leave(c)
        /\ UNCHANGED <<unique_index, spaces, participants, face_auth_logs, args, overlap, lost>>

\* --------------------------------------------- get_or_create_participant
ParticipantSteps ==
    {"participant_select", "uuid_select", "participant_insert"}

ParticipantKey(a) == <<a.organization_id, a.space.id, a.participant_code>>

\* the call: def get_or_create_participant(conn, organization_id, space,
\* participant_code, participant_user_code, participant_name), made with the
\* space the caller's get_or_create_space has just returned
get_or_create_participant(c, participant_code, participant_user_code, participant_name) ==
    /\ pc[c] = "returned"
    /\ args[c].op = "get_or_create_space"
    /\ \/ select_participants_by_key(args[c].organization_id, ret[c].id,
                                     participant_code) # <<>>
       \/ Len(participants)
            + Cardinality({d \in Callers \ {c}: pc[d] \in ParticipantSteps})
          < MaxParticipants
    /\ pc' = [pc EXCEPT ![c] = "participant_select"]
    /\ args' = [args EXCEPT ![c] =
                  [op |-> "get_or_create_participant",
                   organization_id |-> args[c].organization_id,
                   space |-> ret[c],
                   participant_code |-> participant_code,
                   participant_user_code |-> participant_user_code,
                   participant_name |-> participant_name]]
    /\ local' = [local EXCEPT ![c] = NoLocal]
    /\ ret' = [ret EXCEPT ![c] = None]
    /\ attempts' = [attempts EXCEPT ![c] = 0]
    /\ overlap' = Overlaps(c)
    /\ lost' = [lost EXCEPT ![c] =
                  KeepLoss(c, "participants",
                           <<args[c].organization_id, ret[c].id, participant_code>>)]
    /\ UNCHANGED <<unique_index, spaces, participants, face_auth_logs, resolved>>

\* line 111-115 and 142, participant is not None: the row is returned as stored
participant_select_hit(c) ==
    LET participant ==
            fetchone(select_participants_by_key(
                args[c].organization_id, args[c].space.id, args[c].participant_code))
    IN  /\ pc[c] = "participant_select"
        /\ ~participant_is_none(participant)
        /\ pc' = [pc EXCEPT ![c] = "returned"]
        /\ ret' = [ret EXCEPT ![c] = participant]
        /\ Leave(c)
        /\ UNCHANGED <<unique_index, spaces, participants, face_auth_logs, args, overlap, resolved, lost>>

\* line 111-117, participant is None: exist = True, enter the loop
participant_select_miss(c) ==
    LET participant ==
            fetchone(select_participants_by_key(
                args[c].organization_id, args[c].space.id, args[c].participant_code))
    IN  /\ pc[c] = "participant_select"
        /\ participant_is_none(participant)
        /\ pc' = [pc EXCEPT ![c] = "uuid_select"]
        /\ UNCHANGED <<unique_index, spaces, participants, face_auth_logs, args,
                       local, ret, attempts, overlap, resolved, lost>>

uuid_select_collide_exit(c) ==
    /\ pc[c] = "uuid_select"
    /\ attempts[c] < MaxAttempts
    /\ \E participant_uuid \in Uuids:
          /\ ~exist_participant_is_none(
                 fetchone(select_participants_by_uuid(participant_uuid)))
          /\ local' = [local EXCEPT ![c] =
                         [lastrowid |-> 0,
                          participant_uuid |-> participant_uuid,
                          now |-> Instants[c]]]
    /\ attempts' = [attempts EXCEPT ![c] = attempts[c] + 1]
    /\ pc' = [pc EXCEPT ![c] = "participant_insert"]
    /\ UNCHANGED <<unique_index, spaces, participants, face_auth_logs, args,
                   ret, overlap, resolved, lost>>

\* line 118-124, exist_participant is not None: the candidate is dropped and
\* the loop goes round again (there is no count of the rounds in the code;
\* MaxAttempts bounds the colliding candidates the generator produces)
uuid_select_collide(c) ==
    /\ pc[c] = "uuid_select"
    /\ attempts[c] < MaxAttempts
    /\ \E participant_uuid \in Uuids:
          /\ ~exist_participant_is_none(
                 fetchone(select_participants_by_uuid(participant_uuid)))
          /\ local' = [local EXCEPT ![c].participant_uuid = participant_uuid]
    /\ attempts' = [attempts EXCEPT ![c] = attempts[c] + 1]
    /\ UNCHANGED <<unique_index, spaces, participants, face_auth_logs, pc, args,
                   ret, overlap, resolved, lost>>

\* line 118-125, exist_participant is None: the candidate is kept and the
\* clock is read
uuid_select_free(c) ==
    /\ pc[c] = "uuid_select"
    /\ \E participant_uuid \in Uuids, now \in {Instants[c]}:
          /\ exist_participant_is_none(
                 fetchone(select_participants_by_uuid(participant_uuid)))
          /\ local' = [local EXCEPT ![c] =
                         [lastrowid |-> 0,
                          participant_uuid |-> participant_uuid,
                          now |-> now]]
    /\ attempts' = [attempts EXCEPT ![c] = attempts[c] + 1]
    /\ pc' = [pc EXCEPT ![c] = "participant_insert"]
    /\ UNCHANGED <<unique_index, spaces, participants, face_auth_logs, args,
                   ret, overlap, resolved, lost>>

participant_insert_unchecked(c) ==
    /\ pc[c] = "participant_insert"
    /\ \E participant_uuid \in Uuids:
          /\ ~participants_duplicate(participant_uuid, args[c].organization_id,
                                     args[c].space.id, args[c].participant_code)
          /\ participants' =
                Append(participants,
                       [id |-> next_id(participants),
                        uuid |-> participant_uuid,
                        organization_id |-> args[c].organization_id,
                        space_id |-> args[c].space.id,
                        participant_code |-> args[c].participant_code,
                        participant_user_code |-> args[c].participant_user_code,
                        participant_name |-> args[c].participant_name,
                        result_closed_at |->
                            result_closed_at_of(local[c].now, args[c].space)])
    /\ local' = [local EXCEPT ![c].lastrowid = next_id(participants)]
    /\ pc' = [pc EXCEPT ![c] = "participant_reselect"]
    /\ UNCHANGED <<unique_index, spaces, face_auth_logs, args, ret, attempts,
                   overlap, resolved, lost>>

\* line 125-131: result_closed_at from the clock reading, and the insert
participant_insert(c) ==
    /\ pc[c] = "participant_insert"
    /\ ~participants_duplicate(local[c].participant_uuid, args[c].organization_id,
                               args[c].space.id, args[c].participant_code)
    /\ participants' =
          Append(participants,
                 [id |-> next_id(participants),
                  uuid |-> local[c].participant_uuid,
                  organization_id |-> args[c].organization_id,
                  space_id |-> args[c].space.id,
                  participant_code |-> args[c].participant_code,
                  participant_user_code |-> args[c].participant_user_code,
                  participant_name |-> args[c].participant_name,
                  result_closed_at |->
                      result_closed_at_of(local[c].now, args[c].space)])
    /\ local' = [local EXCEPT ![c].lastrowid = next_id(participants)]
    /\ pc' = [pc EXCEPT ![c] = "participant_reselect"]
    /\ UNCHANGED <<unique_index, spaces, face_auth_logs, args, ret, attempts,
                   overlap, resolved, lost>>

\* line 129 raising, line 139-140: a UNIQUE index refuses the row; the error
\* leaves the loop and goes to the caller as it is
participant_insert_refused(c) ==
    LET same_key == select_participants_by_key(
                        args[c].organization_id, args[c].space.id,
                        args[c].participant_code)
    IN  /\ pc[c] = "participant_insert"
        /\ participants_duplicate(local[c].participant_uuid,
                                  args[c].organization_id, args[c].space.id,
                                  args[c].participant_code)
        /\ pc' = [pc EXCEPT ![c] = "raised"]
        /\ ret' = [ret EXCEPT ![c] = Raised("IntegrityError")]
        /\ lost' = [lost EXCEPT ![c] =
                      IF same_key = <<>> THEN NoLoss
                      ELSE [table |-> "participants",
                            key |-> ParticipantKey(args[c]),
                            what |-> "insert",
                            id |-> fetchone(same_key).id]]
        /\ Leave(c)
        /\ args' = [args EXCEPT ![c] = NoArgs]
        /\ UNCHANGED <<unique_index, spaces, participants, face_auth_logs, overlap, resolved>>

\* line 133-137 and 142: the re-read by the id the insert produced; exist = False
participant_reselect(c) ==
    /\ pc[c] = "participant_reselect"
    /\ pc' = [pc EXCEPT ![c] = "returned"]
    /\ ret' = [ret EXCEPT ![c] =
                 fetchone(select_by_id(participants, local[c].lastrowid))]
    /\ Leave(c)
    /\ UNCHANGED <<unique_index, spaces, participants, face_auth_logs, args, overlap, resolved, lost>>

\* --------------------------------------------------- create_face_auth_log
insert_face_auth_log_once(table, row) ==
    IF \E i \in DOMAIN table: table[i] = row THEN table ELSE Append(table, row)

\* INSERT INTO face_auth_logs: the table takes every row
insert_face_auth_log(table, row) == Append(table, row)

\* the call: def create_face_auth_log(conn, organization_id, space_id,
\* participant_id, authentication_code, is_authenticated, reason, logs,
\* threshold)
create_face_auth_log(c, organization_id, space_id, participant_id, authentication_code, is_authenticated, reason, logs, threshold) ==
    /\ pc[c] \in Resting
    /\ Len(face_auth_logs)
         + Cardinality({d \in Callers \ {c}: pc[d] = "log_insert"}) < MaxLogs
    /\ pc' = [pc EXCEPT ![c] = "log_insert"]
    /\ args' = [args EXCEPT ![c] =
                  [op |-> "create_face_auth_log",
                   organization_id |-> organization_id,
                   space_id |-> space_id,
                   participant_id |-> participant_id,
                   authentication_code |-> authentication_code,
                   is_authenticated |-> is_authenticated,
                   reason |-> reason, logs |-> logs, threshold |-> threshold]]
    /\ local' = [local EXCEPT ![c] = NoLocal]
    /\ ret' = [ret EXCEPT ![c] = None]
    /\ attempts' = [attempts EXCEPT ![c] = 0]
    /\ lost' = [lost EXCEPT ![c] = NoLoss]
    /\ UNCHANGED <<unique_index, spaces, participants, face_auth_logs, overlap,
                   resolved>>

\* line 172-173 and 178: the one insert, then return True
face_auth_log_insert(c) ==
    /\ pc[c] = "log_insert"
    /\ face_auth_logs' =
          insert_face_auth_log(
              face_auth_logs,
              [authentication_code |-> args[c].authentication_code,
               organization_id |-> args[c].organization_id,
               space_id |-> args[c].space_id,
               participant_id |-> args[c].participant_id,
               is_authenticated |-> args[c].is_authenticated,
               reason |-> json_dumps(args[c].reason),
               logs |-> json_dumps(args[c].logs),
               threshold |-> args[c].threshold])
    /\ pc' = [pc EXCEPT ![c] = "returned"]
    /\ ret' = [ret EXCEPT ![c] = TRUE]
    /\ Leave(c)
    /\ UNCHANGED <<unique_index, spaces, participants, args, overlap, resolved, lost>>

\* ------------------------------------------------------------ store errors
store_error_rollback(c) ==
    /\ pc[c] \notin Resting
    /\ pc' = [pc EXCEPT ![c] = "raised"]
    /\ ret' = [ret EXCEPT ![c] = Raised("OperationalError")]
    /\ spaces' = IF pc[c] = "space_reselect"
                 THEN SelectSeq(spaces, LAMBDA r: r.id # local[c].lastrowid)
                 ELSE spaces
    /\ participants' =
          IF pc[c] = "participant_reselect"
          THEN SelectSeq(participants, LAMBDA r: r.id # local[c].lastrowid)
          ELSE participants
    /\ lost' = [lost EXCEPT ![c] = LoseReadBack(c)]
    /\ Leave(c)
    /\ args' = [args EXCEPT ![c] = NoArgs]
    /\ UNCHANGED <<unique_index, face_auth_logs, overlap, resolved>>

\* line 79-80, 139-140, 175-176: an execute fails for a reason of the store's
\* own; except pymysql.MySQLError: raise hands it to the caller
store_error(c) ==
    /\ pc[c] \notin Resting
    /\ pc' = [pc EXCEPT ![c] = "raised"]
    /\ ret' = [ret EXCEPT ![c] = Raised("OperationalError")]
    /\ lost' = [lost EXCEPT ![c] = LoseReadBack(c)]
    /\ Leave(c)
    /\ args' = [args EXCEPT ![c] = NoArgs]
    /\ UNCHANGED <<unique_index, spaces, participants, face_auth_logs, overlap, resolved>>

\* ------------------------------------------------------------ get_parameter
\* a Python str value (None is the other value a default can be)
Str(s) == [str |-> s]

\* the parameters the SSM Parameter Store holds
ParameterStore ==
    [Name \in {"/proctorwis/db_host", "/proctorwis/threshold"} |->
        IF Name = "/proctorwis/db_host" THEN Str("db.internal") ELSE Str("0.8")]

\* param_key of the calls: the stored names and one that is not stored
ParamKeys == DOMAIN ParameterStore \cup {"/proctorwis/absent"}

\* default_value of the calls: the default of the signature, and a value
DefaultValues == {None, Str("fallback")}

\* what boto3 raises other than ParameterNotFound
SsmFailures == {"AccessDeniedException", "EndpointConnectionError"}

\* the call: def get_parameter(param_key, default_value=None)
get_parameter(c, param_key, default_value) ==
    /\ pc[c] \in Resting
    /\ pc' = [pc EXCEPT ![c] = "ssm_get_parameter"]
    /\ args' = [args EXCEPT ![c] =
                  [op |-> "get_parameter", param_key |-> param_key,
                   default_value |-> default_value]]
    /\ local' = [local EXCEPT ![c] = NoLocal]
    /\ ret' = [ret EXCEPT ![c] = None]
    /\ attempts' = [attempts EXCEPT ![c] = 0]
    /\ lost' = [lost EXCEPT ![c] = NoLoss]
    /\ UNCHANGED <<unique_index, spaces, participants, face_auth_logs, overlap,
                   resolved>>

\* line 27-30 and 37: the store has the name; response['Parameter']['Value']
ssm_get_parameter_response(c) ==
    /\ pc[c] = "ssm_get_parameter"
    /\ args[c].param_key \in DOMAIN ParameterStore
    /\ pc' = [pc EXCEPT ![c] = "returned"]
    /\ ret' = [ret EXCEPT ![c] = ParameterStore[args[c].param_key]]
    /\ Leave(c)
    /\ UNCHANGED <<unique_index, spaces, participants, face_auth_logs, args,
                   overlap, resolved, lost>>

\* line 31-33: the store raises ParameterNotFound; the default is returned
ssm_parameter_not_found(c) ==
    /\ pc[c] = "ssm_get_parameter"
    /\ args[c].param_key \notin DOMAIN ParameterStore
    /\ pc' = [pc EXCEPT ![c] = "returned"]
    /\ ret' = [ret EXCEPT ![c] = args[c].default_value]
    /\ Leave(c)
    /\ UNCHANGED <<unique_index, spaces, participants, face_auth_logs, args,
                   overlap, resolved, lost>>

ssm_exception_default(c) ==
    /\ pc[c] = "ssm_get_parameter"
    /\ pc' = [pc EXCEPT ![c] = "returned"]
    /\ ret' = [ret EXCEPT ![c] = args[c].default_value]
    /\ Leave(c)
    /\ UNCHANGED <<unique_index, spaces, participants, face_auth_logs, args,
                   overlap, resolved, lost>>

\* line 34-35 (and line 24, outside the try): any other exception goes to
\* the caller as it is
ssm_exception(c) ==
    /\ pc[c] = "ssm_get_parameter"
    /\ \E e \in SsmFailures: ret' = [ret EXCEPT ![c] = Raised(e)]
    /\ pc' = [pc EXCEPT ![c] = "raised"]
    /\ Leave(c)
    /\ UNCHANGED <<unique_index, spaces, participants, face_auth_logs, args,
                   overlap, resolved, lost>>

\* ------------------------------------------------------------------- spec
\* The resolvers: callers that resolve a space and then a participant in it.
Next ==
    \E c \in Callers:
        \/ \E organization_id \in Orgs, space_code \in SpaceCodes:
              get_or_create_space(c, organization_id, space_code, SpaceNames[c])
        \/ space_select_hit(c)
        \/ space_select_miss(c)
        \/ space_insert(c)
        \/ space_insert_refused(c)
        \/ space_reselect(c)
        \/ \E participant_code \in ParticipantCodes:
              get_or_create_participant(c, participant_code,
                                        ParticipantIdentities[c][1],
                                        ParticipantIdentities[c][2])
        \/ participant_select_hit(c)
        \/ participant_select_miss(c)
        \/ uuid_select_collide(c)
        \/ uuid_select_free(c)
        \/ participant_insert(c)
        \/ participant_insert_refused(c)
        \/ participant_reselect(c)
        \/ store_error(c)

Spec == Init /\ [][Next]_vars

\* The space resolver alone: concurrent callers of get_or_create_space.
SpaceNext ==
    \E c \in Callers:
        \/ \E organization_id \in Orgs, space_code \in SpaceCodes:
              get_or_create_space(c, organization_id, space_code, SpaceNames[c])
        \/ space_select_hit(c)
        \/ space_select_miss(c)
        \/ space_insert(c)
        \/ space_insert_refused(c)
        \/ space_reselect(c)
        \/ store_error(c)

SpaceSpec == Init /\ [][SpaceNext]_vars

\* the spaces table once get_or_create_space has created the space of each
\* organization
ResolvedSpaces ==
    <<[id |-> 1, organization_id |-> 41, space_code |-> "S1",
       space_name |-> SpaceNames["a"],
       open_result_days |-> open_result_days_of(41)],
      [id |-> 2, organization_id |-> 42, space_code |-> "S1",
       space_name |-> SpaceNames["b"],
       open_result_days |-> open_result_days_of(42)]>>

\* The participant resolver over resolved spaces: both spaces are in the
\* table (the state after get_or_create_space has created them), callers
\* resolve their space on the hit path and then their participant.
ParticipantInit ==
    /\ unique_index \in {{}, Indexes}
    /\ spaces = ResolvedSpaces
    /\ participants = <<>>
    /\ face_auth_logs = <<>>
    /\ pc = [c \in Callers |-> "idle"]
    /\ args = [c \in Callers |-> NoArgs]
    /\ local = [c \in Callers |-> NoLocal]
    /\ ret = [c \in Callers |-> None]
    /\ attempts = [c \in Callers |-> 0]
    /\ overlap = FALSE
    /\ resolved = [k \in Orgs \X SpaceCodes |-> IF k[1] = 41 THEN 1 ELSE 2]
    /\ lost = [c \in Callers |-> NoLoss]

ParticipantNext ==
    \E c \in Callers:
        \/ \E organization_id \in Orgs, space_code \in SpaceCodes:
              get_or_create_space(c, organization_id, space_code, SpaceNames[c])
        \/ space_select_hit(c)
        \/ \E participant_code \in ParticipantCodes:
              get_or_create_participant(c, participant_code,
                                        ParticipantIdentities[c][1],
                                        ParticipantIdentities[c][2])
        \/ participant_select_hit(c)
        \/ participant_select_miss(c)
        \/ uuid_select_collide(c)
        \/ uuid_select_free(c)
        \/ participant_insert(c)
        \/ participant_insert_refused(c)
        \/ participant_reselect(c)
        \/ store_error(c)

ParticipantSpec == ParticipantInit /\ [][ParticipantNext]_vars

\* The participant resolver alone, when the generator does not collide for
\* ever: each caller has resolved its space (the state the resolvers are in
\* after get_or_create_space has returned to both) and resolves one
\* participant in it; a caller in its uuid loop is not left for ever without
\* a candidate that is not in use.
FairInit ==
    /\ unique_index \in {{}, Indexes}
    /\ spaces = ResolvedSpaces
    /\ participants = <<>>
    /\ face_auth_logs = <<>>
    /\ pc = [c \in Callers |-> "returned"]
    /\ ret \in [Callers -> Range(ResolvedSpaces)]
    /\ args = [c \in Callers |->
                 [op |-> "get_or_create_space",
                  organization_id |-> ret[c].organization_id,
                  space_code |-> ret[c].space_code,
                  space_name |-> SpaceNames[c]]]
    /\ local = [c \in Callers |-> NoLocal]
    /\ attempts = [c \in Callers |-> 0]
    /\ overlap = FALSE
    /\ resolved = [k \in Orgs \X SpaceCodes |-> IF k[1] = 41 THEN 1 ELSE 2]
    /\ lost = [c \in Callers |-> NoLoss]

FairNext ==
    \E c \in Callers:
        \/ \E participant_code \in ParticipantCodes:
              get_or_create_participant(c, participant_code,
                                        ParticipantIdentities[c][1],
                                        ParticipantIdentities[c][2])
        \/ participant_select_hit(c)
        \/ participant_select_miss(c)
        \/ uuid_select_collide(c)
        \/ uuid_select_free(c)
        \/ participant_insert(c)
        \/ participant_insert_refused(c)
        \/ participant_reselect(c)
        \/ store_error(c)

FairSpec ==
    /\ FairInit
    /\ [][FairNext]_vars
    /\ \A c \in Callers: WF_vars(uuid_select_free(c))

\* The audit log: callers that have resolved their participant and append
\* authentication events.
AuthenticationCodes == {"A1"}
ParticipantIds == {1, 2}
LogDocuments == {<< <<"step", "compare">> >>}
\* threshold, in hundredths
Thresholds == {80}

LogNext ==
    \E c \in Callers:
        \/ \E organization_id \in {41}, space_id \in {1},
              participant_id \in ParticipantIds,
              authentication_code \in AuthenticationCodes,
              outcome \in AuthOutcomes, logs \in LogDocuments,
              threshold \in Thresholds:
              create_face_auth_log(c, organization_id, space_id, participant_id,
                                   authentication_code, outcome[1], outcome[2],
                                   logs, threshold)
        \/ face_auth_log_insert(c)
        \/ store_error(c)

LogSpec == Init /\ [][LogNext]_vars

\* The whole control flow for one organization: a caller resolves its space,
\* then its participant, then appends the authentication event of that
\* participant to the audit log.
CoreNext ==
    \E c \in Callers:
        \/ \E space_code \in SpaceCodes:
              get_or_create_space(c, 41, space_code, SpaceNames[c])
        \/ space_select_hit(c)
        \/ space_select_miss(c)
        \/ space_insert(c)
        \/ space_insert_refused(c)
        \/ space_reselect(c)
        \/ \E participant_code \in ParticipantCodes:
              get_or_create_participant(c, participant_code,
                                        ParticipantIdentities[c][1],
                                        ParticipantIdentities[c][2])
        \/ participant_select_hit(c)
        \/ participant_select_miss(c)
        \/ uuid_select_collide(c)
        \/ uuid_select_free(c)
        \/ participant_insert(c)
        \/ participant_insert_refused(c)
        \/ participant_reselect(c)
        \/ \E logs \in LogDocuments, threshold \in Thresholds:
              /\ pc[c] = "returned"
              /\ args[c].op = "get_or_create_participant"
              /\ create_face_auth_log(c, args[c].organization_id,
                                      args[c].space.id, ret[c].id, "A1",
                                      TRUE, <<>>, logs, threshold)
        \/ face_auth_log_insert(c)
        \/ store_error(c)

CoreSpec == Init /\ [][CoreNext]_vars

\* The parameter reader: callers of get_parameter.
ParamNext ==
    \E c \in Callers:
        \/ \E param_key \in ParamKeys, default_value \in DefaultValues:
              get_parameter(c, param_key, default_value)
        \/ ssm_get_parameter_response(c)
        \/ ssm_parameter_not_found(c)
        \/ ssm_exception(c)

ParamSpec == Init /\ [][ParamNext]_vars

\* ================================================================ claims

\* the step c takes from statement `from` came back from the store without
\* an error of the store's own
Executed(c, from) == pc[c] = from /\ pc'[c] # from /\ pc'[c] # "raised"

\* no row for one key was inserted behind another call's lookup: the UNIQUE
\* index forbids it, or no two get-or-create calls have been in flight at once
Serial(index) == index \in unique_index \/ ~overlap

\* C1: once a get_or_create_space call has returned the id i for a key, a
\* call for the same key made afterwards (with any space_name) returns the
\* record with the id i from its first lookup, and inserts nothing: the
\* spaces table is the same before and after.  (Stated for stores that hold
\* one row per key: see C4.)
C1_IdempotentResolution ==
    [][\A c \in Callers:
          (/\ Executed(c, "space_select")
           /\ resolved[SpaceKey(args[c])] # 0
           /\ Serial("spaces_key"))
          => /\ pc'[c] = "returned"
             /\ ret'[c].id = resolved[SpaceKey(args[c])]
             /\ spaces' = spaces]_vars

\* a second call for a key, with another name, has returned the id of the first
C1_Witness ==
    \E c \in Callers:
        /\ pc[c] = "returned" /\ args[c].op = "get_or_create_space"
        /\ ret[c].space_name # args[c].space_name
        /\ ret[c].id = resolved[SpaceKey(args[c])]
        /\ Len(spaces) = 2

\* C2: a call that finds the row of its key returns that row as it is stored
\* (with the stored name, whatever name the call supplied) and leaves the
\* table as it was, for get_or_create_space and get_or_create_participant.
C2_HitReturnsStoredRow ==
    [][\A c \in Callers:
          /\ (pc[c] = "space_select" /\ pc'[c] = "returned")
             => /\ spaces' = spaces
                /\ ret'[c] \in Range(spaces)
                /\ SpaceKey(ret'[c]) = SpaceKey(args[c])
          /\ (pc[c] = "participant_select" /\ pc'[c] = "returned")
             => /\ participants' = participants
                /\ ret'[c] \in Range(participants)
                /\ ret'[c].organization_id = args[c].organization_id
                /\ ret'[c].space_id = args[c].space.id
                /\ ret'[c].participant_code = args[c].participant_code]_vars

\* one caller holds a space found under another name, the other a
\* participant found under another name and user code
C2_Witness ==
    \E c, d \in Callers:
        /\ pc[c] = "returned" /\ args[c].op = "get_or_create_space"
        /\ ret[c].space_name # args[c].space_name
        /\ pc[d] = "returned" /\ args[d].op = "get_or_create_participant"
        /\ ret[d].participant_name # args[d].participant_name
        /\ ret[d].participant_user_code # args[d].participant_user_code

UuidsDistinct ==
    \A i, j \in DOMAIN participants:
        i # j => participants[i].uuid # participants[j].uuid

SpaceKeysDistinct ==
    \A i, j \in DOMAIN spaces:
        i # j => SpaceKey(spaces[i]) # SpaceKey(spaces[j])

\* C4 as claimed: under every interleaving the spaces table holds at most one
\* row per (organization_id, space_code).
C4_Original == SpaceKeysDistinct

\* C4 (amended): the spaces table holds at most one row per
\* (organization_id, space_code) when the store holds a UNIQUE index on that
\* key or when no two get-or-create calls have overlapped.
C4_SpaceKeysDistinctWhenSerial == Serial("spaces_key") => SpaceKeysDistinct

\* two callers have both missed one key; one has inserted its row, the other
\* is about to insert
C4_Witness ==
    \E c, d \in Callers:
        /\ pc[c] = "space_reselect" /\ pc[d] = "space_insert"
        /\ SpaceKey(args[c]) = SpaceKey(args[d])
        /\ "spaces_key" \in unique_index

ParticipantRowKey(r) == <<r.organization_id, r.space_id, r.participant_code>>

ParticipantKeysDistinct ==
    \A i, j \in DOMAIN participants:
        i # j => ParticipantRowKey(participants[i])
                   # ParticipantRowKey(participants[j])

\* C5 as claimed: under every interleaving the participants table holds at
\* most one row per (organization_id, space_id, participant_code).
C5_Original == ParticipantKeysDistinct

\* C5 (amended): the participants table holds at most one row per
\* (organization_id, space_id, participant_code) when the store holds a
\* UNIQUE index on that key or when no two get-or-create calls have
\* overlapped.
C5_ParticipantKeysDistinctWhenSerial ==
    Serial("participants_key") => ParticipantKeysDistinct

\* two callers have both missed one key; one has inserted its row, the other
\* is still in its uuid loop or about to insert
C5_Witness ==
    \E c, d \in Callers:
        /\ pc[c] = "participant_reselect"
        /\ pc[d] \in {"uuid_select", "participant_insert"}
        /\ ParticipantKey(args[c]) = ParticipantKey(args[d])
        /\ "participants_key" \in unique_index

\* c is in a get-or-create call on the table and key it has lost an insert on
Retrying(c) ==
    /\ lost[c] # NoLoss
    /\ \/ /\ lost[c].table = "spaces"
          /\ args[c].op = "get_or_create_space"
          /\ lost[c].key = SpaceKey(args[c])
       \/ /\ lost[c].table = "participants"
          /\ args[c].op = "get_or_create_participant"
          /\ lost[c].key = ParticipantKey(args[c])

\* the row of c's key is in the table while c is about to insert it
LosesInsert(c) ==
    \/ /\ pc[c] = "space_insert"
       /\ select_spaces_by_key(args[c].organization_id, args[c].space_code)
            # <<>>
    \/ /\ pc[c] = "participant_insert"
       /\ select_participants_by_key(args[c].organization_id, args[c].space.id,
                                     args[c].participant_code) # <<>>

\* C6: against a store that holds the UNIQUE indexes, when a caller that has
\* missed its key executes its insert after another caller has inserted the
\* row of that key, the call ends there with the store's error raised to the
\* caller (no second lookup, no second insert) and no table has changed, so
\* that one insert of the two has succeeded; when the loser calls again for
\* the key, that call inserts nothing and returns the winner's row.
C6_LoserRaisesThenFindsWinner ==
    [][unique_index = Indexes =>
        \A c \in Callers:
          /\ (LosesInsert(c) /\ pc'[c] # pc[c])
             => /\ pc'[c] = "raised"
                /\ ret'[c] \in {Raised("IntegrityError"),
                                Raised("OperationalError")}
                /\ spaces' = spaces /\ participants' = participants
                /\ IF args[c].op = "get_or_create_space"
                   THEN Cardinality({i \in DOMAIN spaces:
                            SpaceKey(spaces[i]) = SpaceKey(args[c])}) = 1
                   ELSE Cardinality({i \in DOMAIN participants:
                            ParticipantRowKey(participants[i])
                              = ParticipantKey(args[c])}) = 1
          /\ (Retrying(c) /\ pc[c] \in {"space_select", "participant_select"}
              /\ pc'[c] \notin {pc[c], "raised"})
             => /\ pc'[c] = "returned"
                /\ ret'[c].id = lost[c].id
                /\ spaces' = spaces /\ participants' = participants]_vars

\* a caller whose insert was refused has called again for the key and holds
\* the winner's row
C6_Witness ==
    \E c \in Callers:
        /\ Retrying(c)
        /\ lost[c].what = "insert"
        /\ pc[c] = "returned"
        /\ ret[c].id = lost[c].id
        /\ unique_index = Indexes

\* C7 as claimed: the uuid loop has a budget: a call that is still in its loop
\* has made fewer than MaxAttempts existence checks (once the budget is used
\* up the call has ended, raising AllocationExhausted).
C7_Original ==
    \A c \in Callers: pc[c] = "uuid_select" => attempts[c] < MaxAttempts

\* C8: every round of the uuid loop makes one existence check; a candidate
\* that is in the table sends the loop round again, the first candidate that
\* is not ends it, and that candidate is the uuid of the row the call then
\* inserts; and if the generator does not collide for ever, a call in its
\* loop leaves it.
C8_LoopRepeatsUntilFree ==
    /\ [][\A c \in Callers:
            /\ (pc[c] = "uuid_select" /\ attempts'[c] = attempts[c] + 1)
               => LET taken == \E r \in Range(participants):
                                   r.uuid = local'[c].participant_uuid
                  IN  /\ taken => pc'[c] = "uuid_select"
                      /\ ~taken => pc'[c] = "participant_insert"
            /\ (pc[c] = "uuid_select" /\ pc'[c] = "participant_insert")
               => attempts'[c] = attempts[c] + 1
            /\ (pc[c] = "participant_insert"
                /\ pc'[c] = "participant_reselect")
               => /\ Len(participants') = Len(participants) + 1
                  /\ participants'[Len(participants')].uuid
                       = local[c].participant_uuid]_vars
    /\ \A c \in Callers: (pc[c] = "uuid_select") ~> (pc[c] # "uuid_select")

\* a call whose first MaxAttempts candidates collided has inserted the next one
C8_Witness ==
    \E c \in Callers:
        /\ pc[c] = "participant_reselect"
        /\ attempts[c] = MaxAttempts + 1
        /\ participants[Len(participants)].uuid = local[c].participant_uuid

\* T + D days in the format YYYY-MM-DD HH:MM:SS.ffffff, written out for the
\* instants and retention windows of the model
ExpectedResultClosedAt(now, days) ==
    CASE now = dt(2024, 1, 1, 0, 0, 0, 0) /\ days = 3
            -> "2024-01-04 00:00:00.000000"
      [] now = dt(2024, 1, 1, 0, 0, 0, 0) /\ days = 7
            -> "2024-01-08 00:00:00.000000"
      [] now = dt(2024, 2, 27, 9, 5, 7, 789) /\ days = 3
            -> "2024-03-01 09:05:07.000789"
      [] now = dt(2024, 2, 27, 9, 5, 7, 789) /\ days = 7
            -> "2024-03-05 09:05:07.000789"

\* C9: the row a get_or_create_participant call inserts has result_closed_at
\* = T + D days, T the instant the call read the clock and D the
\* open_result_days of the space it was given.
C9_ResultClosedAt ==
    [][\A c \in Callers:
          (pc[c] = "participant_insert" /\ pc'[c] = "participant_reselect")
          => /\ Len(participants') = Len(participants) + 1
             /\ participants'[Len(participants')].result_closed_at
                  = ExpectedResultClosedAt(local[c].now,
                                           args[c].space.open_result_days)]_vars

\* a participant created at 2024-01-01 00:00:00 with 3 days, and one created
\* across the end of February of a leap year
C9_Witness ==
    /\ Len(participants) = 2
    /\ \E i \in DOMAIN participants:
          participants[i].result_closed_at = "2024-01-04 00:00:00.000000"
    /\ \E i \in DOMAIN participants:
          participants[i].result_closed_at = "2024-03-05 09:05:07.000789"

\* C10: every create_face_auth_log call that returns has returned True and
\* has added its one row at the end of face_auth_logs, whatever rows the
\* table holds already; nothing else changes the table.
C10_AppendsOneRow ==
    [][/\ \A c \in Callers:
            (pc[c] = "log_insert" /\ pc'[c] = "returned")
            => /\ ret'[c] = TRUE
               /\ Len(face_auth_logs') = Len(face_auth_logs) + 1
               /\ SubSeq(face_auth_logs', 1, Len(face_auth_logs))
                    = face_auth_logs
               /\ LET row == face_auth_logs'[Len(face_auth_logs')]
                  IN  /\ row.participant_id = args[c].participant_id
                      /\ row.is_authenticated = args[c].is_authenticated
       /\ face_auth_logs' # face_auth_logs
            => \E c \in Callers: pc[c] = "log_insert" /\ pc'[c] = "returned"
      ]_vars

\* two calls with the same arguments have returned True and left two equal rows
C10_Witness ==
    /\ Len(face_auth_logs) = 2
    /\ face_auth_logs[1] = face_auth_logs[2]
    /\ face_auth_logs[1].reason = "{\"code\": \"mismatch\"}"
    /\ \A c \in Callers: pc[c] = "returned" /\ ret[c] = TRUE
    /\ args["a"] = args["b"]

\* C11: a get_parameter call that returns has returned the stored value when
\* the store holds param_key and the supplied default_value when it does
\* not; a call that ends on another failure of the store has raised that
\* failure, and no failure is answered with the default.
C11_ValueDefaultOrFailure ==
    [][\A c \in Callers:
          pc[c] = "ssm_get_parameter" /\ pc'[c] # pc[c]
          => \/ /\ pc'[c] = "returned"
                /\ args[c].param_key \in DOMAIN ParameterStore
                /\ ret'[c] = ParameterStore[args[c].param_key]
             \/ /\ pc'[c] = "returned"
                /\ args[c].param_key \notin DOMAIN ParameterStore
                /\ ret'[c] = args[c].default_value
             \/ /\ pc'[c] = "raised"
                /\ \E e \in SsmFailures: ret'[c] = Raised(e)]_vars

\* one caller holds a stored value though it supplied a default, the other
\* holds the default it supplied for a name that is not stored
C11_Witness ==
    \E c, d \in Callers:
        /\ pc[c] = "returned" /\ args[c].op = "get_parameter"
        /\ args[c].default_value = Str("fallback")
        /\ ret[c] = Str("0.8")
        /\ pc[d] = "returned" /\ args[d].op = "get_parameter"
        /\ args[d].param_key \notin DOMAIN ParameterStore
        /\ ret[d] = Str("fallback")

\* the row a call of c for the arguments a has inserted into spaces
OwnSpaceRow(r, a) ==
    /\ r.organization_id = a.organization_id
    /\ r.space_code = a.space_code
    /\ r.space_name = a.space_name

\* the row a call of c for the arguments a has inserted into participants
OwnParticipantRow(r, a) ==
    /\ r.organization_id = a.organization_id
    /\ r.space_id = a.space.id
    /\ r.participant_code = a.participant_code
    /\ r.participant_user_code = a.participant_user_code
    /\ r.participant_name = a.participant_name

\* C12: on the miss path a call makes one insert (the insert statement is
\* left for the re-read or with an error, never entered again, and appends
\* one row of the call's arguments whose id becomes lastrowid), and the
\* re-read returns the row with that id, which is the row this call
\* inserted, whatever rows other callers have inserted meanwhile; the
\* re-read inserts nothing.
C12_MissInsertsOnceReturnsOwnRow ==
    [][\A c \in Callers:
          /\ (pc[c] = "space_insert" /\ pc'[c] # pc[c])
             => \/ pc'[c] = "raised" /\ spaces' = spaces
                \/ /\ pc'[c] = "space_reselect"
                   /\ spaces' = Append(spaces, spaces'[Len(spaces')])
                   /\ OwnSpaceRow(spaces'[Len(spaces')], args[c])
                   /\ local'[c].lastrowid = spaces'[Len(spaces')].id
          /\ (pc[c] = "space_reselect" /\ pc'[c] # pc[c])
             => \/ pc'[c] = "raised" /\ spaces' = spaces
                \/ /\ pc'[c] = "returned"
                   /\ spaces' = spaces
                   /\ ret'[c] \in Range(spaces)
                   /\ ret'[c].id = local[c].lastrowid
                   /\ OwnSpaceRow(ret'[c], args[c])
          /\ (pc[c] = "participant_insert" /\ pc'[c] # pc[c])
             => \/ pc'[c] = "raised" /\ participants' = participants
                \/ /\ pc'[c] = "participant_reselect"
                   /\ participants'
                        = Append(participants, participants'[Len(participants')])
                   /\ OwnParticipantRow(participants'[Len(participants')], args[c])
                   /\ local'[c].lastrowid = participants'[Len(participants')].id
          /\ (pc[c] = "participant_reselect" /\ pc'[c] # pc[c])
             => \/ pc'[c] = "raised" /\ participants' = participants
                \/ /\ pc'[c] = "returned"
                   /\ participants' = participants
                   /\ ret'[c] \in Range(participants)
                   /\ ret'[c].id = local[c].lastrowid
                   /\ OwnParticipantRow(ret'[c], args[c])]_vars

\* two callers have missed one key together, both have inserted, and each
\* holds its own row
C12_Witness ==
    \E c, d \in Callers:
        /\ c # d
        /\ pc[c] = "returned" /\ args[c].op = "get_or_create_space"
        /\ pc[d] = "returned" /\ args[d].op = "get_or_create_space"
        /\ SpaceKey(args[c]) = SpaceKey(args[d])
        /\ ret[c].id # ret[d].id
        /\ OwnSpaceRow(ret[c], args[c]) /\ OwnSpaceRow(ret[d], args[d])

\* C13: when a call fails on its re-read, after its insert, the caller gets
\* the store's error and no record while the row it inserted stays in the
\* table; when the caller then calls again for the key (the key's rows not
\* doubled by a race: see C4, C5), the lookup finds that row and the call
\* returns it without inserting.
C13_LostReadBackFoundLater ==
    [][\A c \in Callers:
          /\ (pc[c] = "space_reselect" /\ pc'[c] = "raised")
             => /\ ret'[c] = Raised("OperationalError")
                /\ spaces' = spaces /\ participants' = participants
                /\ \E r \in Range(spaces'):
                      r.id = local[c].lastrowid /\ OwnSpaceRow(r, args[c])
          /\ (pc[c] = "participant_reselect" /\ pc'[c] = "raised")
             => /\ ret'[c] = Raised("OperationalError")
                /\ spaces' = spaces /\ participants' = participants
                /\ \E r \in Range(participants'):
                      r.id = local[c].lastrowid /\ OwnParticipantRow(r, args[c])
          /\ (/\ Retrying(c) /\ lost[c].what = "read_back"
              /\ \/ pc[c] = "space_select" /\ Serial("spaces_key")
                 \/ pc[c] = "participant_select" /\ Serial("participants_key")
              /\ pc'[c] \notin {pc[c], "raised"})
             => /\ pc'[c] = "returned"
                /\ ret'[c].id = lost[c].id
                /\ spaces' = spaces /\ participants' = participants]_vars

\* a caller whose participant re-read failed has called again for the key
\* and holds the row it had inserted
C13_Witness ==
    \E c \in Callers:
        /\ Retrying(c) /\ lost[c].what = "read_back"
        /\ lost[c].table = "participants"
        /\ pc[c] = "returned"
        /\ ret[c].id = lost[c].id
        /\ OwnParticipantRow(ret[c], args[c])
        /\ Len(participants) = 1

\* the UNIQUE index on uuid refuses c's insert, and nothing else does: the
\* candidate c has checked is in the table now, the row of c's key is not
UuidTakenSinceCheck(c) ==
    /\ pc[c] = "participant_insert"
    /\ "participants_uuid" \in unique_index
    /\ select_participants_by_uuid(local[c].participant_uuid) # <<>>
    /\ select_participants_by_key(args[c].organization_id, args[c].space.id,
                                  args[c].participant_code) = <<>>

\* C14 as claimed: when the insert is refused because another writer has
\* taken the candidate uuid since this call checked it, the call goes back
\* into its generate-check loop for a new candidate instead of ending with
\* the store's error.
C14_Original ==
    [][\A c \in Callers:
          (/\ UuidTakenSinceCheck(c)
           /\ pc'[c] # pc[c]
           /\ ret'[c] # Raised("OperationalError"))
          => pc'[c] = "uuid_select"]_vars

\* s is the beginning of t
IsPrefix(s, t) == Len(s) <= Len(t) /\ SubSeq(t, 1, Len(s)) = s

\* C15: no step of get_or_create_space, get_or_create_participant or
\* create_face_auth_log changes or removes a row of spaces or participants:
\* after every step both tables begin with the rows they held before, every
\* field as it was (uuid and result_closed_at among them).
C15_AppendOnly ==
    [][/\ IsPrefix(spaces, spaces')
       /\ IsPrefix(participants, participants')]_vars

\* rows have been added after the first ones to all three tables, and the
\* first participant still has the uuid and result_closed_at it was given
C15_Witness ==
    /\ Len(spaces) = 2 /\ Len(participants) = 2 /\ Len(face_auth_logs) = 2
    /\ participants[1].result_closed_at = "2024-01-04 00:00:00.000000"
    /\ participants[1].uuid # participants[2].uuid
    /\ \A c \in Callers: pc[c] = "returned" /\ ret[c] = TRUE

\* C16: in a get_or_create_participant call, a candidate whose existence
\* check finds a row is dropped (the call stays in its loop), the call
\* reaches its insert only with a candidate whose check, made by this call,
\* found no row, it keeps that candidate until it inserts, the row it
\* inserts carries that candidate, and after its insert the call inserts
\* no more.
C16_InsertsOnlyCheckedCandidate ==
    [][\A c \in Callers:
          /\ (pc[c] = "uuid_select" /\ attempts'[c] = attempts[c] + 1)
             => IF select_participants_by_uuid(local'[c].participant_uuid) # <<>>
                THEN pc'[c] = "uuid_select" /\ participants' = participants
                ELSE pc'[c] = "participant_insert" /\ participants' = participants
          /\ pc'[c] = "participant_insert"
             => \/ pc[c] = "participant_insert" /\ local'[c] = local[c]
                \/ /\ pc[c] = "uuid_select"
                   /\ select_participants_by_uuid(local'[c].participant_uuid)
                        = <<>>
          /\ (pc[c] = "participant_insert" /\ pc'[c] = "participant_reselect")
             => /\ participants'
                     = Append(participants, participants'[Len(participants')])
                /\ participants'[Len(participants')].uuid
                     = local[c].participant_uuid
          /\ pc[c] = "participant_reselect"
             => pc'[c] \in {"participant_reselect", "returned", "raised"}
          /\ pc'[c] = "participant_reselect"
             => pc[c] \in {"participant_insert", "participant_reselect"}
          /\ Len(participants') > Len(participants)
             => \E d \in Callers:
                   pc[d] = "participant_insert"
                   /\ pc'[d] = "participant_reselect"]_vars

\* a call has dropped a candidate that was in use, and has inserted the next
\* one, which was not
C16_Witness ==
    \E c \in Callers:
        /\ pc[c] = "participant_reselect"
        /\ attempts[c] = 2
        /\ Len(participants) = 2
        /\ local[c].lastrowid = 2
        /\ participants[2].uuid = local[c].participant_uuid
        /\ participants[1].uuid # participants[2].uuid

\* C17: the record a get_or_create_space call has returned has the
\* organization_id and space_code of the call, and the record a
\* get_or_create_participant call has returned has the organization_id, the
\* space_id (the id of the space passed) and the participant_code of the
\* call, whether the call found the row or inserted it.
C17_ReturnedRecordHasCallKey ==
    \A c \in Callers:
        pc[c] = "returned"
        => /\ args[c].op = "get_or_create_space"
              => /\ ret[c].organization_id = args[c].organization_id
                 /\ ret[c].space_code = args[c].space_code
           /\ args[c].op = "get_or_create_participant"
              => /\ ret[c].organization_id = args[c].organization_id
                 /\ ret[c].space_id = args[c].space.id
                 /\ ret[c].participant_code = args[c].participant_code

\* both organizations have a space and a participant; one caller holds a
\* participant another caller's call inserted (hit path), the other a space
\* of the other organization
C17_Witness ==
    \E c, d \in Callers:
        /\ Len(spaces) = 2 /\ Len(participants) = 2
        /\ participants[1].organization_id # participants[2].organization_id
        /\ pc[c] = "returned" /\ args[c].op = "get_or_create_participant"
        /\ ret[c].participant_name # args[c].participant_name
        /\ pc[d] = "returned" /\ args[d].op = "get_or_create_space"
        /\ ret[d].organization_id # ret[c].organization_id

\* C18: with callers that pass to get_or_create_participant the record
\* their get_or_create_space call has returned, together with the
\* organization_id of that call, every participants row has the id of a
\* spaces row as its space_id, and that spaces row has the participant's
\* organization_id.
C18_ParticipantSpaceOfSameOrganization ==
    \A i \in DOMAIN participants:
        \E j \in DOMAIN spaces:
            /\ spaces[j].id = participants[i].space_id
            /\ spaces[j].organization_id = participants[i].organization_id

\* participants of two organizations, each in the space of its organization
C18_Witness ==
    /\ Len(spaces) = 2 /\ Len(participants) = 2
    /\ participants[1].space_id # participants[2].space_id
    /\ participants[1].organization_id = 42
    /\ participants[2].organization_id = 41
    /\ \A c \in Callers:
          pc[c] = "returned" /\ args[c].op = "get_or_create_participant"

====
